---- MODULE Spec2Model ----
(***************************************************************************)
(* The per-tick engine of the_life_simulation_by_L4DK_v6_21062024.py: the  *)
(* Atom class, create_atom, combine_atoms, apply_gravity_and_forces,       *)
(* handle_collisions, update_atoms and the body of the main loop.          *)
(*                                                                         *)
(* Numbers.  Every Python float is an exact rational <<num, den>> in       *)
(* lowest terms with den > 0, so 0.1 is <<1, 10>> and 0.995 is             *)
(* <<199, 200>>; float rounding is not modelled.  math.hypot is exact on   *)
(* the inputs the model draws (their squared distances are squares).       *)
(*                                                                         *)
(* Three specifications share the variables:                               *)
(*   Spec      the main loop, tick after tick, on the population list;     *)
(*   SpecOps   one call of eat, reproduce or the Atom constructor on a     *)
(*             drawn population;                                           *)
(*   SpecPhys  one call of check_bounds, resolve_collision or the force    *)
(*             field on a drawn pair of atoms.                             *)
(***************************************************************************)
EXTENDS Integers, Sequences, FiniteSets, TLC

VARIABLES
    atoms,   \* the population: the Python list `atoms`, in list order
    pc,      \* Spec: the call the main loop makes next; SpecOps/SpecPhys: the call just made
    tick,    \* completed iterations of the main loop
    prev,    \* the list as it was when the last call started
    visits,  \* ids of the atoms the last for-loop ran its body on, in order
    nextId,  \* object identity: the id the next constructed Atom gets
    caller   \* SpecOps/SpecPhys: the arguments of the call just made

vars == <<atoms, pc, tick, prev, visits, nextId, caller>>

----------------------------------------------------------------------------
(* Float arithmetic as exact rationals                                     *)

Abs(n) == IF n < 0 THEN -n ELSE n

RECURSIVE GCD(_, _)
GCD(a, b) == IF b = 0 THEN a ELSE GCD(b, a % b)

\* num/den in lowest terms, den > 0
Rat(n, d) ==
    LET s == IF d < 0 THEN -1 ELSE 1
        g == GCD(Abs(n), Abs(d))
    IN  <<(s * n) \div g, (s * d) \div g>>

R(n) == <<n, 1>>
Zero == <<0, 1>>
\* the operands are brought to the least common denominator, and products
\* are cancelled before they are multiplied, to keep the integers small
RAdd(a, b) ==
    LET g == GCD(a[2], b[2])
    IN  Rat(a[1] * (b[2] \div g) + b[1] * (a[2] \div g), (a[2] \div g) * b[2])
RNeg(a) == <<-a[1], a[2]>>
RSub(a, b) == RAdd(a, RNeg(b))
RMul(a, b) ==
    LET g1 == GCD(Abs(a[1]), b[2])
        g2 == GCD(Abs(b[1]), a[2])
    IN  Rat((a[1] \div g1) * (b[1] \div g2), (a[2] \div g2) * (b[2] \div g1))
\* Python raises ZeroDivisionError on b = 0: no caller in the model divides by 0
RDiv(a, b) == RMul(a, IF b[1] < 0 THEN <<-b[2], -b[1]>> ELSE <<b[2], b[1]>>)
RLt(a, b) ==
    LET g == GCD(a[2], b[2]) IN a[1] * (b[2] \div g) < b[1] * (a[2] \div g)
RLe(a, b) ==
    LET g == GCD(a[2], b[2]) IN a[1] * (b[2] \div g) <= b[1] * (a[2] \div g)
RMin(a, b) == IF RLt(b, a) THEN b ELSE a
RMax(a, b) == IF RLt(a, b) THEN b ELSE a
RSq(a) == RMul(a, a)

\* integer square root (floor), by bisection; 46340 is the largest root of an int
RECURSIVE ISqrtIn(_, _, _)
ISqrtIn(n, lo, hi) ==
    IF lo = hi THEN lo
    ELSE LET mid == (lo + hi + 1) \div 2
         IN  IF mid * mid <= n THEN ISqrtIn(n, mid, hi) ELSE ISqrtIn(n, lo, mid - 1)
ISqrt(n) == ISqrtIn(n, 0, IF n < 46340 THEN n ELSE 46340)
IsSquare(n) == ISqrt(n) * ISqrt(n) = n

\* math.hypot(dx, dy), exact when dx^2 + dy^2 is the square of a rational
HypotExact(dx, dy) ==
    LET s == RAdd(RSq(dx), RSq(dy)) IN IsSquare(s[1]) /\ IsSquare(s[2])
Hypot(dx, dy) ==
    LET s == RAdd(RSq(dx), RSq(dy)) IN Rat(ISqrt(s[1]), ISqrt(s[2]))

----------------------------------------------------------------------------
(* Program constants                                                       *)

WINDOW_SIZE == 1200
ATOM_SIZE == R(5)
FOOD_SIZE == R(3)
MAX_VELOCITY == R(5)
DAMPING_FACTOR == Rat(995, 1000)
COLLISION_DAMPING == Rat(98, 100)
FORCE_SCALE == R(1)
GRAVITY == Rat(1, 100)
COULOMB == Rat(1, 100)
FORCE_THRESHOLD == R(100)
SIMULATION_SPEED == R(1)
REPRODUCTION_COOLDOWN == 60

----------------------------------------------------------------------------
(* class Atom                                                              *)

\* Atom.__init__: stores its arguments as given (no argument is validated)
\* and sets the vitals.  id stands for the object's identity.  color, trail,
\* in_battle and the write-only accumulators fx, fy are left out: nothing
\* the engine computes reads them.
AtomInit(id, x, y, vx, vy, mass, charge, size, species) ==
    [id |-> id, x |-> x, y |-> y, vx |-> vx, vy |-> vy, mass |-> mass,
     charge |-> charge, size |-> size, species |-> species,
     energy |-> R(100), hunger |-> R(100), health |-> R(100), age |-> 0,
     cooldown |-> 0]

\* create_atom(atom_type): the factory; position and velocity are its random draws
CreateAtom(id, atom_type, x, y, vx, vy) ==
    CASE atom_type = "red" ->
           AtomInit(id, x, y, vx, vy, R(1), R(1), ATOM_SIZE, atom_type)
      [] atom_type = "blue" ->
           AtomInit(id, x, y, vx, vy, R(1), R(-1), ATOM_SIZE, atom_type)
      [] atom_type = "food" ->
           AtomInit(id, x, y, Zero, Zero, Rat(1, 10), Zero, FOOD_SIZE, atom_type)

\* combine_atoms with the masses subtracted instead of added
CombineAtomsMassDiff(id, atom1, atom2) ==
    [AtomInit(id, atom1.x, atom1.y, RDiv(RAdd(atom1.vx, atom2.vx), R(2)),
              RDiv(RAdd(atom1.vy, atom2.vy), R(2)), RSub(atom1.mass, atom2.mass),
              RDiv(RAdd(atom1.charge, atom2.charge), R(2)),
              RDiv(RAdd(atom1.size, atom2.size), R(2)), atom1.species)
     EXCEPT !.health = RMin(atom1.health, atom2.health)]

\* combine_atoms with the mate's health instead of the smaller health
CombineAtomsMateHealth(id, atom1, atom2) ==
    [AtomInit(id, atom1.x, atom1.y, RDiv(RAdd(atom1.vx, atom2.vx), R(2)),
              RDiv(RAdd(atom1.vy, atom2.vy), R(2)), RAdd(atom1.mass, atom2.mass),
              RDiv(RAdd(atom1.charge, atom2.charge), R(2)),
              RDiv(RAdd(atom1.size, atom2.size), R(2)), atom1.species)
     EXCEPT !.health = atom2.health]

\* combine_atoms(atom1, atom2)
CombineAtoms(id, atom1, atom2) ==
    LET new_atom == AtomInit(id, atom1.x, atom1.y,
                             RDiv(RAdd(atom1.vx, atom2.vx), R(2)),
                             RDiv(RAdd(atom1.vy, atom2.vy), R(2)),
                             RAdd(atom1.mass, atom2.mass),
                             RDiv(RAdd(atom1.charge, atom2.charge), R(2)),
                             RDiv(RAdd(atom1.size, atom2.size), R(2)),
                             atom1.species)
    IN  [new_atom EXCEPT !.health = RMin(atom1.health, atom2.health)]

\* check_collision: hypot(dx, dy) < size + other.size, compared as squares
\* (both sides are >= 0), which needs no square root
CheckCollision(self, other) ==
    RLt(RAdd(RSq(RSub(self.x, other.x)), RSq(RSub(self.y, other.y))),
        RSq(RAdd(self.size, other.size)))

\* check_bounds without its clamp
ClampPosNone(p) == p

\* max(0, min(p, WINDOW_SIZE))
ClampPos(p) == RMax(Zero, RMin(p, R(WINDOW_SIZE)))

\* the test of check_bounds with <= and >= for < and >
OutOfBoundsInclusive(p) == RLe(p, Zero) \/ RLe(R(WINDOW_SIZE), p)

\* the test of check_bounds on one position component
OutOfBounds(p) == RLt(p, Zero) \/ RLt(R(WINDOW_SIZE), p)

\* check_bounds
CheckBounds(self) ==
    [self EXCEPT !.vx = IF OutOfBounds(self.x) THEN RNeg(self.vx) ELSE self.vx,
                 !.vy = IF OutOfBounds(self.y) THEN RNeg(self.vy) ELSE self.vy,
                 !.x = ClampPos(self.x),
                 !.y = ClampPos(self.y)]

\* max(-MAX_VELOCITY, min(v, MAX_VELOCITY))
ClampVel(v) == RMax(RNeg(MAX_VELOCITY), RMin(v, MAX_VELOCITY))

\* update_position (the trail is the renderer's)
UpdatePosition(self) ==
    LET moved == [self EXCEPT !.x = RAdd(self.x, RMul(self.vx, SIMULATION_SPEED)),
                              !.y = RAdd(self.y, RMul(self.vy, SIMULATION_SPEED)),
                              !.vx = RMul(self.vx, DAMPING_FACTOR),
                              !.vy = RMul(self.vy, DAMPING_FACTOR)]
        inb == CheckBounds(moved)
        lim == [inb EXCEPT !.vx = ClampVel(inb.vx), !.vy = ClampVel(inb.vy)]
    IN  [lim EXCEPT !.energy =
            RMul(RMul(Rat(1, 2), lim.mass), RAdd(RSq(lim.vx), RSq(lim.vy)))]

\* apply_force(fx, fy): velocity += force / mass
ApplyForce(self, fx, fy) ==
    [self EXCEPT !.vx = RAdd(self.vx, RDiv(fx, self.mass)),
                 !.vy = RAdd(self.vy, RDiv(fy, self.mass))]

\* resolve_collision with each atom's impulse scaled by its own mass
ResolveCollisionOwnMass(self, other) ==
    LET nx0 == RSub(other.x, self.x)
        ny0 == RSub(other.y, self.y)
        distance == Hypot(nx0, ny0)
    IN  IF distance = Zero THEN <<self, other>>
        ELSE
        LET nx == RDiv(nx0, distance)
            ny == RDiv(ny0, distance)
            vn == RAdd(RMul(RSub(self.vx, other.vx), nx),
                       RMul(RSub(self.vy, other.vy), ny))
        IN  IF RLt(Zero, vn) THEN <<self, other>>
            ELSE
            LET impulse == RDiv(RMul(R(2), vn), RAdd(self.mass, other.mass))
                ix == RMul(RMul(impulse, nx), COLLISION_DAMPING)
                iy == RMul(RMul(impulse, ny), COLLISION_DAMPING)
            IN  << [self EXCEPT !.vx = RSub(self.vx, RMul(ix, self.mass)),
                                !.vy = RSub(self.vy, RMul(iy, self.mass))],
                   [other EXCEPT !.vx = RAdd(other.vx, RMul(ix, other.mass)),
                                 !.vy = RAdd(other.vy, RMul(iy, other.mass))] >>

\* resolve_collision(other): the pair <<self, other>> after the call
ResolveCollision(self, other) ==
    LET nx0 == RSub(other.x, self.x)
        ny0 == RSub(other.y, self.y)
        distance == Hypot(nx0, ny0)
    IN  IF distance = Zero THEN <<self, other>>
        ELSE
        LET nx == RDiv(nx0, distance)
            ny == RDiv(ny0, distance)
            dvx == RSub(self.vx, other.vx)
            dvy == RSub(self.vy, other.vy)
            vn == RAdd(RMul(dvx, nx), RMul(dvy, ny))
        IN  IF RLt(Zero, vn) THEN <<self, other>>
            ELSE
            LET impulse == RDiv(RMul(R(2), vn), RAdd(self.mass, other.mass))
                ix == RMul(RMul(impulse, nx), COLLISION_DAMPING)
                iy == RMul(RMul(impulse, ny), COLLISION_DAMPING)
            IN  << [self EXCEPT !.vx = RSub(self.vx, RMul(ix, other.mass)),
                                !.vy = RSub(self.vy, RMul(iy, other.mass))],
                   [other EXCEPT !.vx = RAdd(other.vx, RMul(ix, self.mass)),
                                 !.vy = RAdd(other.vy, RMul(iy, self.mass))] >>

\* the list with the element at index i replaced by a
SetAt(lst, i, a) == [lst EXCEPT ![i] = a]

\* list.remove by identity: the list without its element at index i
RemoveAt(lst, i) == [k \in 1..(Len(lst) - 1) |-> IF k < i THEN lst[k] ELSE lst[k + 1]]

\* the list with the object of a's identity, if it is in the list, updated to a
Put(lst, a) == [k \in 1..Len(lst) |-> IF lst[k].id = a.id THEN a ELSE lst[k]]

\* the smallest member of a non-empty set of list indices: the first match of a scan
First(S) == CHOOSE k \in S : \A m \in S : k <= m

\* the indices eat's scan matches: food-tagged and colliding with self
EatMatches(lst, self) ==
    {k \in 1..Len(lst) : lst[k].species = "food" /\ CheckCollision(self, lst[k])}

\* v + 20 without the cap at 100
FeedUncapped(v) == RAdd(v, R(20))

\* min(100, v + 20)
Feed(v) == RMin(R(100), RAdd(v, R(20)))

\* eat(atoms): [lst, self] after the call
Eat(lst, self) ==
    IF EatMatches(lst, self) = {} THEN [lst |-> lst, self |-> self]
    ELSE
    LET fed == [self EXCEPT !.hunger = Feed(self.hunger), !.energy = Feed(self.energy)]
        k == First(EatMatches(lst, self))
    IN  [lst |-> RemoveAt(Put(lst, fed), k), self |-> fed]

\* the indices find_mate's scan matches
MateMatches(lst, self) ==
    {k \in 1..Len(lst) : /\ lst[k].id # self.id
                         /\ RLt(R(70), lst[k].health)
                         /\ lst[k].cooldown = 0
                         /\ lst[k].species = self.species}

\* mate_with appending two offspring, the second one on cooldown
MateWithTwins(lst, self, k, id) ==
    LET new_atom == CombineAtoms(id, self, lst[k])
        twin == [CombineAtoms(id + 1, self, lst[k])
                    EXCEPT !.cooldown = REPRODUCTION_COOLDOWN]
        me == [self EXCEPT !.cooldown = REPRODUCTION_COOLDOWN]
        mate == [lst[k] EXCEPT !.cooldown = REPRODUCTION_COOLDOWN]
    IN  [lst |-> Append(Append(SetAt(Put(lst, me), k, mate), new_atom), twin),
         self |-> me, nid |-> id + 2]

\* mate_with(mate, atoms) and the two assignments of reproduce that follow it
MateWith(lst, self, k, id) ==
    LET new_atom == CombineAtoms(id, self, lst[k])
        me == [self EXCEPT !.cooldown = REPRODUCTION_COOLDOWN]
        mate == [lst[k] EXCEPT !.cooldown = REPRODUCTION_COOLDOWN]
    IN  [lst |-> Append(SetAt(Put(lst, me), k, mate), new_atom), self |-> me,
         nid |-> id + 1]

\* reproduce(atoms): [lst, self, nid] after the call
Reproduce(lst, self, id) ==
    IF self.cooldown = 0 /\ MateMatches(lst, self) # {}
    THEN MateWith(lst, self, First(MateMatches(lst, self)), id)
    ELSE [lst |-> lst, self |-> self, nid |-> id]

\* the countdown without its test: self.reproduction_cooldown -= 1
CooldownTickUnguarded(self) == [self EXCEPT !.cooldown = self.cooldown - 1]

\* decide_behavior, lines 633-635: the reproduction cooldown counts down
CooldownTick(self) ==
    IF self.cooldown > 0 THEN [self EXCEPT !.cooldown = self.cooldown - 1] ELSE self

----------------------------------------------------------------------------
(* The force field: the first three loops of apply_gravity_and_forces      *)

\* the body of the pair loop for the pair (a, b): <<a, b>> after it
ForcePair(a, b) ==
    LET dx == RSub(b.x, a.x)
        dy == RSub(b.y, a.y)
        distance == Hypot(dx, dy)
    IN  IF distance = Zero \/ RLt(FORCE_THRESHOLD, distance) THEN <<a, b>>
        ELSE
        LET Fg == RDiv(RMul(RMul(GRAVITY, a.mass), b.mass), RSq(distance))
            Fe == IF a.charge = Zero \/ b.charge = Zero THEN Zero
                  ELSE RDiv(RMul(RMul(COULOMB, a.charge), b.charge), RSq(distance))
            Fx == RMul(RDiv(RMul(RSub(Fg, Fe), dx), distance), FORCE_SCALE)
            Fy == RMul(RDiv(RMul(RSub(Fg, Fe), dy), distance), FORCE_SCALE)
        IN  <<ApplyForce(a, Fx, Fy), ApplyForce(b, RNeg(Fx), RNeg(Fy))>>

\* for i, a in enumerate(atoms): for j, b in enumerate(atoms[i + 1:], start=i + 1)
RECURSIVE PairLoop(_, _, _)
PairLoop(lst, i, j) ==
    IF i > Len(lst) THEN lst
    ELSE IF j > Len(lst) THEN PairLoop(lst, i + 1, i + 2)
    ELSE LET r == ForcePair(lst[i], lst[j])
         IN  PairLoop(SetAt(SetAt(lst, i, r[1]), j, r[2]), i, j + 1)

\* for atom in atoms: atom.apply_force(-atom.vx, -atom.vy)
Drag(self) == ApplyForce(self, RNeg(self.vx), RNeg(self.vy))

\* reset_force, the pair loop and the drag loop
ForceField(lst) ==
    LET forced == PairLoop(lst, 1, 2)
    IN  [k \in 1..Len(lst) |-> Drag(forced[k])]

----------------------------------------------------------------------------
(* The loops of one tick.  A Python for-loop over a list keeps an index    *)
(* into the live list: it yields lst[i], advances i, and stops when i is   *)
(* past the list's current end, whatever the body did to the list.         *)
(*                                                                         *)
(* Under Spec the velocity an atom has when update_position integrates it  *)
(* is an input v drawn from Vel: it is the result of the force field,      *)
(* random.uniform (wander, flee, decide_behavior), the steering and the    *)
(* collision responses, which SpecPhys checks call by call.                *)

MaxInit == 3    \* atoms in the population the run starts from
MaxTicks == 1   \* iterations of the main loop

\* velocities drawn for update_position, <<vx, vy>>
Vel == {<<Zero, Zero>>, <<R(-4), R(3)>>}

WithVelocity(self, v) == [self EXCEPT !.vx = v[1], !.vy = v[2]]

\* apply_gravity_and_forces, lines 895-906: the body for the atom at index
\* st.i, on st = [lst, i, vis, nid]
InteractBody(st, v) ==
    LET atom == st.lst[st.i]
        b == CheckBounds(atom)
        e == Eat(Put(st.lst, b), b)
        r == Reproduce(e.lst, e.self, st.nid)
        u == UpdatePosition(WithVelocity(r.self, v))
    IN  [lst |-> Put(r.lst, u), i |-> st.i + 1, vis |-> Append(st.vis, atom.id),
         nid |-> r.nid]

\* the runs of the loop `for atom in atoms:` of lines 895-906 from st on:
\* the set of states it can end in, one per choice of the velocities
RECURSIVE InteractLoop(_)
InteractLoop(st) ==
    IF st.i > Len(st.lst) THEN {st}
    ELSE UNION {InteractLoop(InteractBody(st, v)) : v \in Vel}

\* -= 0.1, -= 0.2 and -= 0.5 of update_atoms
HUNGER_DECAY == Rat(1, 10)
ENERGY_DECAY == Rat(2, 10)
HEALTH_DECAY == Rat(5, 10)

\* update_atoms, lines 1095-1102: what the body does to the atom's fields
Decay(atom) ==
    LET a == [atom EXCEPT !.age = atom.age + 1,
                          !.hunger = RSub(atom.hunger, HUNGER_DECAY),
                          !.energy = RSub(atom.energy, ENERGY_DECAY)]
    IN  IF RLe(a.hunger, Zero) \/ RLe(a.energy, Zero)
        THEN [a EXCEPT !.health = RSub(a.health, HEALTH_DECAY)]
        ELSE a

\* the death test with < for <=
DeadStrict(atom) == RLt(atom.health, Zero)

\* update_atoms, lines 1103-1104: if atom.health <= 0: atoms.remove(atom)
Dead(atom) == RLe(atom.health, Zero)

\* update_atoms: the body for the atom at index st.i, on st = [lst, i, vis]
UpdateBody(st) ==
    LET a == Decay(st.lst[st.i])
        kept == IF Dead(a) THEN RemoveAt(st.lst, st.i) ELSE SetAt(st.lst, st.i, a)
    IN  [lst |-> Put(kept, CooldownTick(a)), i |-> st.i + 1,
         vis |-> Append(st.vis, a.id)]

\* update_atoms: the loop `for atom in atoms:` from st on
RECURSIVE UpdateLoop(_)
UpdateLoop(st) == IF st.i > Len(st.lst) THEN st ELSE UpdateLoop(UpdateBody(st))

\* main loop, lines 1302-1305: decide_behavior then update_position
DrawBody(self, v) == UpdatePosition(WithVelocity(CooldownTick(self), v))

----------------------------------------------------------------------------
(* Spec: the main loop                                                     *)

Species == {"red", "blue", "food"}

\* positions drawn for random.randint(0, WINDOW_SIZE), <<x, y>>
InitPos == {<<R(0), R(WINDOW_SIZE)>>, <<R(600), R(600)>>}

\* age, hunger, health and energy a factory-made atom has at the top of the
\* main loop: as constructed, and after 199 ticks in each of which it starved
\* (every pass of update_atoms: age + 1, hunger - 0.1, health - 0.5)
InitVitals ==
    {[age |-> 0, hunger |-> R(100), health |-> R(100), energy |-> R(100)],
     [age |-> 199, hunger |-> Rat(801, 10), health |-> Rat(1, 2), energy |-> Zero]}

WithVitals(self, v) ==
    [self EXCEPT !.age = v.age, !.hunger = v.hunger, !.health = v.health,
                 !.energy = v.energy]

\* lines 1139-1146: the red and blue atoms are created first, the food after them
FactoryOrder(kinds) ==
    \A k \in 1..(Len(kinds) - 1) : kinds[k] = "food" => kinds[k + 1] = "food"

Init ==
    /\ \E n \in 1..MaxInit :
         \E kinds \in [1..n -> Species], pos \in [1..n -> InitPos],
            vit \in [1..n -> InitVitals] :
            /\ FactoryOrder(kinds)
            /\ atoms = [k \in 1..n |->
                    WithVitals(CreateAtom(k, kinds[k], pos[k][1], pos[k][2], Zero, Zero),
                               vit[k])]
            /\ nextId = n + 1
    /\ pc = "apply_gravity_and_forces"
    /\ tick = 0
    /\ prev = atoms
    /\ visits = <<>>
    /\ caller = <<>>

\* apply_gravity_and_forces(atoms)
ApplyGravityAndForces ==
    /\ pc = "apply_gravity_and_forces"
    /\ tick < MaxTicks
    /\ \E st \in InteractLoop([lst |-> atoms, i |-> 1, vis |-> <<>>, nid |-> nextId]) :
         /\ atoms' = st.lst
         /\ visits' = st.vis
         /\ nextId' = st.nid
    /\ prev' = atoms
    /\ pc' = "handle_collisions"
    /\ UNCHANGED <<tick, caller>>

\* handle_collisions(atoms): writes velocities only
HandleCollisions ==
    /\ pc = "handle_collisions"
    /\ prev' = atoms
    /\ visits' = <<>>
    /\ pc' = "update_atoms"
    /\ UNCHANGED <<atoms, tick, nextId, caller>>

\* update_atoms(atoms, structures)
UpdateAtoms ==
    /\ pc = "update_atoms"
    /\ LET st == UpdateLoop([lst |-> atoms, i |-> 1, vis |-> <<>>])
       IN  atoms' = st.lst /\ visits' = st.vis
    /\ prev' = atoms
    /\ pc' = "draw"
    /\ UNCHANGED <<tick, nextId, caller>>

\* lines 1302-1305: for atom in atoms: decide_behavior, update_position
DrawLoop ==
    /\ pc = "draw"
    /\ \E vs \in [1..Len(atoms) -> Vel] :
         atoms' = [k \in 1..Len(atoms) |-> DrawBody(atoms[k], vs[k])]
    /\ visits' = [k \in 1..Len(atoms) |-> atoms[k].id]
    /\ prev' = atoms
    /\ tick' = tick + 1
    /\ pc' = "apply_gravity_and_forces"
    /\ UNCHANGED <<nextId, caller>>

Next == ApplyGravityAndForces \/ HandleCollisions \/ UpdateAtoms \/ DrawLoop

Spec == Init /\ [][Next]_vars

----------------------------------------------------------------------------
(* SpecOps: one call of eat, reproduce or Atom(...) on a drawn population  *)

MaxOps == 3   \* atoms in the drawn population

\* positions: 7 apart, where an atom and a food collide (7 < 5 + 3) and two
\* foods do not (7 >= 3 + 3); atoms drawn at the same position coincide
OpsPos == {<<R(600), R(600)>>, <<R(607), R(600)>>}

\* vitals the tick loop produces.  hunger: 100 less 0.1 a pass; energy: as
\* constructed, or a kinetic energy (12.5 is a unit mass at speed 5);
\* health: 100 less 0.5 a starved pass; cooldown: 0, or 60 right after a mating
OpsVitals ==
    {[hunger |-> R(100), energy |-> R(100), health |-> R(100), cooldown |-> 0],
     [hunger |-> R(40), energy |-> Rat(25, 2), health |-> R(80), cooldown |-> 0],
     [hunger |-> R(85), energy |-> Rat(1, 100), health |-> R(70), cooldown |-> 0],
     [hunger |-> R(85), energy |-> Rat(25, 2), health |-> R(100),
      cooldown |-> REPRODUCTION_COOLDOWN]}

WithOpsVitals(self, v) ==
    [self EXCEPT !.hunger = v.hunger, !.energy = v.energy, !.health = v.health,
                 !.cooldown = v.cooldown]

InitOps ==
    /\ \E n \in 1..MaxOps :
         \E kinds \in [1..n -> Species], pos \in [1..n -> OpsPos],
            vit \in [1..n -> OpsVitals] :
            /\ atoms = [k \in 1..n |->
                    WithOpsVitals(CreateAtom(k, kinds[k], pos[k][1], pos[k][2], Zero, Zero),
                                  vit[k])]
            /\ nextId = n + 1
    /\ pc = "init"
    /\ tick = 0
    /\ prev = atoms
    /\ visits = <<>>
    /\ caller = <<>>

\* atoms[i].eat(atoms)
DoEat ==
    /\ pc = "init"
    /\ \E i \in 1..Len(atoms) :
         /\ atoms' = Eat(atoms, atoms[i]).lst
         /\ caller' = <<i>>
    /\ pc' = "eat"
    /\ prev' = atoms
    /\ UNCHANGED <<tick, visits, nextId>>

\* atoms[i].reproduce(atoms)
DoReproduce ==
    /\ pc = "init"
    /\ \E i \in 1..Len(atoms) :
         LET r == Reproduce(atoms, atoms[i], nextId)
         IN  /\ atoms' = r.lst
             /\ nextId' = r.nid
             /\ caller' = <<i>>
    /\ pc' = "reproduce"
    /\ prev' = atoms
    /\ UNCHANGED <<tick, visits>>

\* masses handed to the constructor
CtorMass == {R(-1), Zero, Rat(1, 10), R(1)}

\* atoms.append(Atom(x, y, vx, vy, mass, charge, size, color, species))
DoConstruct ==
    /\ pc = "init"
    /\ \E mass \in CtorMass :
         atoms' = Append(atoms, AtomInit(nextId, R(600), R(600), Zero, Zero, mass,
                                         Zero, FOOD_SIZE, "food"))
    /\ nextId' = nextId + 1
    /\ caller' = <<>>
    /\ pc' = "construct"
    /\ prev' = atoms
    /\ UNCHANGED <<tick, visits>>

NextOps == DoEat \/ DoReproduce \/ DoConstruct

SpecOps == InitOps /\ [][NextOps]_vars

----------------------------------------------------------------------------
(* SpecPhys: one call of check_bounds, resolve_collision or the force      *)
(* field on drawn atoms; check_bounds also as update_position calls it,    *)
(* after the position has moved                                            *)

MaxPhys == 2   \* atoms in the drawn population

\* positions whose pairwise distances are whole numbers where the model
\* computes them: 10 apart along an axis and along (6, 8), and on the walls
PhysPos == {<<R(600), R(600)>>, <<R(610), R(600)>>, <<R(606), R(608)>>,
            <<R(0), R(600)>>, <<R(WINDOW_SIZE), R(600)>>, <<R(600), R(0)>>}

\* velocities: at rest, and two that point out of the world at one wall each
PhysVel == {<<Zero, Zero>>, <<R(-4), R(3)>>, <<Rat(1, 10), R(-2)>>}

\* the atoms the run creates: the factory's three, and the offspring of two reds
PhysKinds == {"red", "blue", "food", "red+red"}

PhysAtom(id, kind, p, v) ==
    IF kind = "red+red"
    THEN CombineAtoms(id, CreateAtom(id, "red", p[1], p[2], v[1], v[2]),
                      CreateAtom(id, "red", p[1], p[2], v[1], v[2]))
    ELSE WithVelocity(CreateAtom(id, kind, p[1], p[2], Zero, Zero), v)

InitPhys ==
    /\ \E n \in 1..MaxPhys :
         \E kinds \in [1..n -> PhysKinds], pos \in [1..n -> PhysPos],
            vel \in [1..n -> PhysVel] :
            /\ \A i, j \in 1..n :
                  HypotExact(RSub(pos[i][1], pos[j][1]), RSub(pos[i][2], pos[j][2]))
            /\ atoms = [k \in 1..n |-> PhysAtom(k, kinds[k], pos[k], vel[k])]
            /\ nextId = n + 1
    /\ pc = "init"
    /\ tick = 0
    /\ prev = atoms
    /\ visits = <<>>
    /\ caller = <<>>

\* update_position, lines 278-283, for atoms[i]: the position moves and the
\* velocity is damped; its call of check_bounds comes next
DoMove ==
    /\ pc = "init"
    /\ \E i \in 1..Len(atoms) :
         /\ atoms' = SetAt(atoms, i,
                [atoms[i] EXCEPT
                    !.x = RAdd(atoms[i].x, RMul(atoms[i].vx, SIMULATION_SPEED)),
                    !.y = RAdd(atoms[i].y, RMul(atoms[i].vy, SIMULATION_SPEED)),
                    !.vx = RMul(atoms[i].vx, DAMPING_FACTOR),
                    !.vy = RMul(atoms[i].vy, DAMPING_FACTOR)])
         /\ caller' = <<i>>
    /\ pc' = "moved"
    /\ prev' = atoms
    /\ UNCHANGED <<tick, visits, nextId>>

\* atoms[i].check_bounds(): called on its own (line 897), or by the
\* update_position that has just moved atoms[i] (line 286)
DoCheckBounds ==
    /\ pc \in {"init", "moved"}
    /\ \E i \in 1..Len(atoms) :
         /\ pc = "moved" => caller = <<i>>
         /\ atoms' = SetAt(atoms, i, CheckBounds(atoms[i]))
         /\ caller' = <<i>>
    /\ pc' = "check_bounds"
    /\ prev' = atoms
    /\ UNCHANGED <<tick, visits, nextId>>

\* atoms[i].resolve_collision(atoms[j])
DoResolveCollision ==
    /\ pc = "init"
    /\ \E i, j \in 1..Len(atoms) :
         /\ i # j
         /\ LET r == ResolveCollision(atoms[i], atoms[j])
            IN  atoms' = SetAt(SetAt(atoms, i, r[1]), j, r[2])
         /\ caller' = <<i, j>>
    /\ pc' = "resolve_collision"
    /\ prev' = atoms
    /\ UNCHANGED <<tick, visits, nextId>>

\* apply_gravity_and_forces, lines 856-892: the force field pass
DoForceField ==
    /\ pc = "init"
    /\ atoms' = ForceField(atoms)
    /\ caller' = <<>>
    /\ pc' = "force_field"
    /\ prev' = atoms
    /\ UNCHANGED <<tick, visits, nextId>>

NextPhys == DoMove \/ DoCheckBounds \/ DoResolveCollision \/ DoForceField

SpecPhys == InitPhys /\ [][NextPhys]_vars

----------------------------------------------------------------------------
(* SpecForce: one step of the force field or of the steering on a drawn    *)
(* population.  A step that gets to a division by a zero distance raises   *)
(* ZeroDivisionError, which ends the program: pc records it.               *)

\* the 0.1 of chase and of decide_behavior's steering
STEER_GAIN == Rat(1, 10)

\* self.vx += dx / distance * 0.1; self.vy += dy / distance * 0.1: the
\* division raises when distance is 0, and nothing has been written then
Toward(self, dx, dy, distance) ==
    IF distance = Zero THEN [raised |-> TRUE, self |-> self]
    ELSE [raised |-> FALSE,
          self |-> [self EXCEPT
                      !.vx = RAdd(self.vx, RMul(RDiv(dx, distance), STEER_GAIN)),
                      !.vy = RAdd(self.vy, RMul(RDiv(dy, distance), STEER_GAIN))]]

\* chase without its test of the distance
ChaseUnguarded(self, target) ==
    LET dx == RSub(target.x, self.x)
        dy == RSub(target.y, self.y)
    IN  Toward(self, dx, dy, Hypot(dx, dy))

\* chase(target)
Chase(self, target) ==
    LET dx == RSub(target.x, self.x)
        dy == RSub(target.y, self.y)
        distance == Hypot(dx, dy)
    IN  IF RLt(Zero, distance) THEN Toward(self, dx, dy, distance)
        ELSE [raised |-> FALSE, self |-> self]

\* hypot(self.x - other.x, self.y - other.y), squared: the scans for the
\* nearest atom compare distances, which their squares order the same way
DistSq(self, other) ==
    RAdd(RSq(RSub(self.x, other.x)), RSq(RSub(self.y, other.y)))

\* decide_behavior, lines 648-654: the index of the closest other atom, the
\* first one in list order among the closest (the scan keeps its candidate
\* unless the distance is strictly smaller); 0 when there is no other atom
Closest(lst, i) ==
    LET others == (1..Len(lst)) \ {i}
    IN  IF others = {} THEN 0
        ELSE CHOOSE k \in others :
               \A m \in others :
                  \/ RLt(DistSq(lst[i], lst[k]), DistSq(lst[i], lst[m]))
                  \/ DistSq(lst[i], lst[k]) = DistSq(lst[i], lst[m]) /\ k <= m

\* decide_behavior, lines 647-659: the steering toward the closest atom
\* (in_battle is never set)
Steer(lst, i) ==
    IF Closest(lst, i) = 0 THEN [raised |-> FALSE, self |-> lst[i]]
    ELSE LET closest_atom == lst[Closest(lst, i)]
             dx == RSub(closest_atom.x, lst[i].x)
             dy == RSub(closest_atom.y, lst[i].y)
             distance == Hypot(dx, dy)
         IN  IF RLt(Zero, distance) THEN Toward(lst[i], dx, dy, distance)
             ELSE [raised |-> FALSE, self |-> lst[i]]

\* apply_gravity_and_forces, lines 862-888: the body of the pair loop for
\* a = atoms[i], b = atoms[j]
DoForcePair ==
    /\ pc = "init"
    /\ \E i, j \in 1..Len(atoms) :
         /\ i < j
         /\ LET r == ForcePair(atoms[i], atoms[j])
            IN  atoms' = SetAt(SetAt(atoms, i, r[1]), j, r[2])
         /\ caller' = <<i, j>>
    /\ pc' = "force_pair"
    /\ prev' = atoms
    /\ UNCHANGED <<tick, visits, nextId>>

\* apply_gravity_and_forces, lines 891-892: the drag on atoms[i]
DoDrag ==
    /\ pc = "init"
    /\ \E i \in 1..Len(atoms) :
         /\ atoms' = SetAt(atoms, i, Drag(atoms[i]))
         /\ caller' = <<i>>
    /\ pc' = "drag"
    /\ prev' = atoms
    /\ UNCHANGED <<tick, visits, nextId>>

\* atoms[i].chase(atoms[j])
DoChase ==
    /\ pc = "init"
    /\ \E i, j \in 1..Len(atoms) :
         /\ i # j
         /\ LET r == Chase(atoms[i], atoms[j])
            IN  /\ atoms' = SetAt(atoms, i, r.self)
                /\ pc' = IF r.raised THEN "ZeroDivisionError" ELSE "chase"
         /\ caller' = <<i, j>>
    /\ prev' = atoms
    /\ UNCHANGED <<tick, visits, nextId>>

\* the steering of atoms[i].decide_behavior(atoms)
DoSteer ==
    /\ pc = "init"
    /\ \E i \in 1..Len(atoms) :
         /\ LET r == Steer(atoms, i)
            IN  /\ atoms' = SetAt(atoms, i, r.self)
                /\ pc' = IF r.raised THEN "ZeroDivisionError" ELSE "steer"
         /\ caller' = <<i>>
    /\ prev' = atoms
    /\ UNCHANGED <<tick, visits, nextId>>

NextForce == DoForcePair \/ DoDrag \/ DoResolveCollision \/ DoChase \/ DoSteer

SpecForce == InitPhys /\ [][NextForce]_vars

----------------------------------------------------------------------------
(* SpecPass: one run of the interaction loop of apply_gravity_and_forces   *)
(* on a drawn population, some of whose atoms are on cooldown              *)

\* apply_gravity_and_forces, lines 895-906: the loop, from its first
\* iteration to its end
DoInteractLoop ==
    /\ pc = "init"
    /\ \E st \in InteractLoop([lst |-> atoms, i |-> 1, vis |-> <<>>, nid |-> nextId]) :
         /\ atoms' = st.lst
         /\ visits' = st.vis
         /\ nextId' = st.nid
    /\ prev' = atoms
    /\ pc' = "interact_done"
    /\ UNCHANGED <<tick, caller>>

NextPass == DoInteractLoop

SpecPass == InitOps /\ [][NextPass]_vars

----------------------------------------------------------------------------
(* SpecBody: the two calls of the interaction loop's body that change the  *)
(* population, made for one atom of a drawn population                     *)

\* apply_gravity_and_forces, lines 899-900, for atom = atoms[i]:
\* atom.eat(atoms) then atom.reproduce(atoms), on the same object whether or
\* not eat has removed it from the list
DoEatReproduce ==
    /\ pc = "init"
    /\ \E i \in 1..Len(atoms) :
         LET e == Eat(atoms, atoms[i])
             r == Reproduce(e.lst, e.self, nextId)
         IN  /\ atoms' = r.lst
             /\ nextId' = r.nid
             /\ caller' = <<i>>
    /\ pc' = "eat_reproduce"
    /\ prev' = atoms
    /\ UNCHANGED <<tick, visits>>

NextBody == DoEatReproduce

SpecBody == InitOps /\ [][NextBody]_vars

----------------------------------------------------------------------------
(* SpecSeason: the two places that deal with mating, reproduce and the     *)
(* mate-seeking arm of decide_behavior, under either value of the module   *)
(* constant MATING_SEASON.  The source sets it to True; the value a step   *)
(* runs under is an input of the step, and pc records it.                  *)

\* the values MATING_SEASON can be given
MatingSeasons == BOOLEAN

\* decide_behavior, lines 665-685: the arm `elif MATING_SEASON and ...`,
\* reached when the hunger test of the first arm fails; the other two arms
\* (chase of food, wander) write the caller's velocity only
MateBranch(season, lst, i) ==
    LET self == lst[i]
    IN  IF /\ ~RLt(self.hunger, R(50))
           /\ season
           /\ self.cooldown = 0
           /\ RLt(R(50), self.hunger)
           /\ RLt(R(50), self.health)
           /\ MateMatches(lst, self) # {}
        THEN Chase(self, lst[First(MateMatches(lst, self))]).self
        ELSE self

\* atoms[i].reproduce(atoms), which does not read MATING_SEASON
DoReproduceSeason ==
    /\ pc = "init"
    /\ \E season \in MatingSeasons, i \in 1..Len(atoms) :
         LET r == Reproduce(atoms, atoms[i], nextId)
         IN  /\ atoms' = r.lst
             /\ nextId' = r.nid
             /\ caller' = <<i>>
             /\ pc' = IF season THEN "reproduce_in_season" ELSE "reproduce_off_season"
    /\ prev' = atoms
    /\ UNCHANGED <<tick, visits>>

\* the mate-seeking arm of atoms[i].decide_behavior(atoms)
DoSeekMate ==
    /\ pc = "init"
    /\ \E season \in MatingSeasons, i \in 1..Len(atoms) :
         /\ atoms' = SetAt(atoms, i, MateBranch(season, atoms, i))
         /\ caller' = <<i>>
         /\ pc' = IF season THEN "seek_in_season" ELSE "seek_off_season"
    /\ prev' = atoms
    /\ UNCHANGED <<tick, visits, nextId>>

NextSeason == DoReproduceSeason \/ DoSeekMate

SpecSeason == InitOps /\ [][NextSeason]_vars

----------------------------------------------------------------------------
(* The claims                                                              *)

\* how many times the last loop ran its body on the object id
Times(id) == Cardinality({k \in 1..Len(visits) : visits[k] = id})

\* the indices at which the object id is in the list
Where(lst, id) == {k \in 1..Len(lst) : lst[k].id = id}

\* C1: when a pass of update_atoms has ended, every atom that was in the
\* population when it started has been aged exactly once: the loop body ran
\* on it once, and if it is still in the population its age is one more and
\* its hunger and energy are 0.1 and 0.2 less than when the pass started.
C1_LifecyclePassCoversEveryAtom ==
    pc = "draw" =>
        \A k \in 1..Len(prev) :
            /\ Times(prev[k].id) = 1
            /\ \A m \in Where(atoms, prev[k].id) :
                  /\ atoms[m].age = prev[k].age + 1
                  /\ atoms[m].hunger = RSub(prev[k].hunger, Rat(1, 10))
                  /\ atoms[m].energy = RSub(prev[k].energy, Rat(2, 10))

\* C2: when the interaction loop of apply_gravity_and_forces has ended, every
\* atom that was in the population when it started and is still in it has
\* had the loop body run on it exactly once.
C2_InteractionLoopCoversEveryAtom ==
    pc = "handle_collisions" =>
        \A k \in 1..Len(prev) :
            Where(atoms, prev[k].id) # {} => Times(prev[k].id) = 1

\* C3: at the end of every pass of update_atoms no atom of the population
\* has health <= 0.
C3_NoDeadAfterLifecyclePass ==
    pc = "draw" => \A k \in 1..Len(atoms) : RLt(Zero, atoms[k].health)

\* C3 witness: a pass of update_atoms has ended in which an atom died and was
\* removed, with an offspring born this tick in the population.
C3_Witness ==
    /\ pc = "draw"
    /\ \E k \in 1..Len(prev) : Where(atoms, prev[k].id) = {}
    /\ \E m \in 1..Len(atoms) : atoms[m].mass \notin {R(1), Rat(1, 10)}

\* C4: after a constructor call, no atom with mass <= 0 has come into
\* existence.
C4_ConstructorRejectsNonPositiveMass ==
    pc = "construct" => \A k \in 1..Len(atoms) : RLt(Zero, atoms[k].mass)

\* C5: in every state of a run every atom of the population has mass > 0.
C5_MassPositive == \A k \in 1..Len(atoms) : RLt(Zero, atoms[k].mass)

\* C5 witness: the population holds the offspring of an offspring (mass 3:
\* a unit mass mated with the offspring of two unit masses).
C5_Witness == \E k \in 1..Len(atoms) : atoms[k].mass = R(3)

\* C6, as claimed: check_bounds inverts the velocity component of an atom
\* that is at exactly 0 moving in the negative direction, or at exactly
\* WINDOW_SIZE moving in the positive direction.
C6_InvertsAtTheWall ==
    pc = "check_bounds" =>
        LET a == prev[caller[1]]
            b == atoms[caller[1]]
        IN  /\ (a.x = Zero /\ RLt(a.vx, Zero)) => b.vx = RNeg(a.vx)
            /\ (a.x = R(WINDOW_SIZE) /\ RLt(Zero, a.vx)) => b.vx = RNeg(a.vx)
            /\ (a.y = Zero /\ RLt(a.vy, Zero)) => b.vy = RNeg(a.vy)
            /\ (a.y = R(WINDOW_SIZE) /\ RLt(Zero, a.vy)) => b.vy = RNeg(a.vy)

\* C6, amended: check_bounds inverts a velocity component when the position
\* component is strictly below 0 or strictly above WINDOW_SIZE, and leaves it
\* as it is when the position component is in [0, WINDOW_SIZE], the walls
\* included.
C6_InvertsBeyondTheWall ==
    pc = "check_bounds" =>
        LET a == prev[caller[1]]
            b == atoms[caller[1]]
            Beyond(p) == RLt(p, Zero) \/ RLt(R(WINDOW_SIZE), p)
        IN  /\ b.vx = IF Beyond(a.x) THEN RNeg(a.vx) ELSE a.vx
            /\ b.vy = IF Beyond(a.y) THEN RNeg(a.vy) ELSE a.vy

\* C6 witness: check_bounds has inverted the negative x velocity of an atom
\* that update_position had moved below 0.
C6_Witness ==
    /\ pc = "check_bounds"
    /\ RLt(prev[caller[1]].x, Zero)
    /\ RLt(prev[caller[1]].vx, Zero)
    /\ atoms[caller[1]].vx = RNeg(prev[caller[1]].vx)

\* C7: after the force field pass on two atoms of mass 1 with charges +1 and
\* -1, 10 apart and at rest, each atom has a velocity that points toward the
\* other.
C7_OppositeChargesApproach ==
    ( /\ pc = "force_field"
      /\ Len(prev) = 2
      /\ prev[1].mass = R(1) /\ prev[2].mass = R(1)
      /\ {prev[1].charge, prev[2].charge} = {R(1), R(-1)}
      /\ RAdd(RSq(RSub(prev[2].x, prev[1].x)), RSq(RSub(prev[2].y, prev[1].y))) = R(100)
      /\ \A k \in 1..2 : prev[k].vx = Zero /\ prev[k].vy = Zero )
    => LET dx == RSub(atoms[2].x, atoms[1].x)
           dy == RSub(atoms[2].y, atoms[1].y)
       IN  /\ RLt(Zero, RAdd(RMul(atoms[1].vx, dx), RMul(atoms[1].vy, dy)))
           /\ RLt(RAdd(RMul(atoms[2].vx, dx), RMul(atoms[2].vy, dy)), Zero)

\* C8: eat removes the first food-tagged atom, in list order, that collides
\* with the caller, and sets the caller's hunger and energy to
\* min(100, value + 20), every other atom staying as it was and in the same
\* order; with no such food atom it changes nothing.
C8_EatFeedsAndRemovesFirstFood ==
    pc = "eat" =>
        LET self == prev[caller[1]]
            M == {k \in 1..Len(prev) :
                    prev[k].species = "food" /\ CheckCollision(self, prev[k])}
            Cap(v) == IF RLt(R(100), RAdd(v, R(20))) THEN R(100) ELSE RAdd(v, R(20))
            fed == [self EXCEPT !.hunger = Cap(self.hunger), !.energy = Cap(self.energy)]
        IN  IF M = {} THEN atoms = prev
            ELSE LET f == CHOOSE k \in M : \A m \in M : k <= m
                 IN  /\ Len(atoms) = Len(prev) - 1
                     /\ \A k \in 1..Len(prev) :
                           k # f =>
                             atoms[IF k < f THEN k ELSE k - 1] =
                                 IF k = caller[1] THEN fed ELSE prev[k]

\* C8 witness: an atom that is not food has eaten, with two food atoms
\* colliding with it, and the first of them is gone.
C8_Witness ==
    /\ pc = "eat"
    /\ prev[caller[1]].species # "food"
    /\ Cardinality({k \in 1..Len(prev) :
            prev[k].species = "food" /\ CheckCollision(prev[caller[1]], prev[k])}) = 2
    /\ Len(atoms) = Len(prev) - 1
    /\ \E m \in Where(atoms, prev[caller[1]].id) :
          prev[caller[1]].hunger = R(40) /\ atoms[m].hunger = R(60)

\* C9: a reproduce call that finds a mate appends one offspring, placed at
\* the caller's position with the caller's species tag, the sum of the two
\* masses and the smaller of the two healths, and changes no field of an atom
\* that was in the population other than the reproduction cooldown.
C9_MatingAppendsOneOffspring ==
    pc = "reproduce" =>
        LET self == prev[caller[1]]
            E == {k \in 1..Len(prev) : /\ k # caller[1]
                                       /\ RLt(R(70), prev[k].health)
                                       /\ prev[k].cooldown = 0
                                       /\ prev[k].species = self.species}
        IN  (self.cooldown = 0 /\ E # {}) =>
              LET mate == prev[CHOOSE k \in E : \A m \in E : k <= m]
                  child == atoms[Len(atoms)]
              IN  /\ Len(atoms) = Len(prev) + 1
                  /\ child.mass = RAdd(self.mass, mate.mass)
                  /\ child.health = IF RLt(mate.health, self.health)
                                    THEN mate.health ELSE self.health
                  /\ child.species = self.species
                  /\ child.x = self.x /\ child.y = self.y
                  /\ \A k \in 1..Len(prev) :
                        [atoms[k] EXCEPT !.cooldown = prev[k].cooldown] = prev[k]

\* C9 witness: a mating has appended an offspring whose health, 80, is the
\* mate's, the caller's being 100.
C9_Witness ==
    /\ pc = "reproduce"
    /\ Len(atoms) = Len(prev) + 1
    /\ prev[caller[1]].health = R(100)
    /\ atoms[Len(atoms)].health = R(80)

\* C10: resolve_collision leaves the pair's momentum as it was, in both
\* axes: m1 * dv1 + m2 * dv2 = 0, dv being the change of an atom's velocity.
C10_MomentumConserved ==
    pc = "resolve_collision" =>
        LET a == prev[caller[1]]
            b == prev[caller[2]]
            a2 == atoms[caller[1]]
            b2 == atoms[caller[2]]
        IN  /\ RAdd(RMul(a.mass, RSub(a2.vx, a.vx)),
                    RMul(b.mass, RSub(b2.vx, b.vx))) = Zero
            /\ RAdd(RMul(a.mass, RSub(a2.vy, a.vy)),
                    RMul(b.mass, RSub(b2.vy, b.vy))) = Zero

\* C10 witness: resolve_collision has changed both velocity components of two
\* atoms of different mass.
C10_Witness ==
    /\ pc = "resolve_collision"
    /\ prev[caller[1]].mass # prev[caller[2]].mass
    /\ atoms[caller[1]].vx # prev[caller[1]].vx
    /\ atoms[caller[1]].vy # prev[caller[1]].vy
    /\ atoms[caller[2]].vx # prev[caller[2]].vx

\* C11: within a tick nothing is eaten, no offspring is born and no position
\* is integrated before handle_collisions and update_atoms have run: when
\* handle_collisions is about to run, the population and every position are
\* as they were when the tick's apply_gravity_and_forces was called.
C11_NothingMovesBeforeCollisionPass ==
    pc = "handle_collisions" =>
        /\ Len(atoms) = Len(prev)
        /\ \A k \in 1..Len(atoms) :
              /\ atoms[k].id = prev[k].id
              /\ atoms[k].x = prev[k].x
              /\ atoms[k].y = prev[k].y

\* the atoms of lst' that were not in lst
Born(lst, lst2) == {k \in 1..Len(lst2) : Where(lst, lst2[k].id) = {}}

\* C12, the steps: over a step of the tick an atom's reproduction cooldown
\* stays as it is, or goes down by 1 from a value > 0 in a step that runs
\* decide_behavior (update_atoms, the draw loop), or goes from 0 to 60 in a step
\* in which an offspring is born; an atom born in the step has cooldown 0, or
\* 60 if it has mated since.
C12_CooldownStep ==
    \A k \in 1..Len(atoms') :
        LET c2 == atoms'[k].cooldown
        IN  IF k \in Born(atoms, atoms')
            THEN pc = "apply_gravity_and_forces" /\ c2 \in {0, REPRODUCTION_COOLDOWN}
            ELSE \A m \in Where(atoms, atoms'[k].id) :
                   LET c == atoms[m].cooldown
                   IN  \/ c2 = c
                       \/ c > 0 /\ c2 = c - 1 /\ pc \in {"update_atoms", "draw"}
                       \/ /\ c = 0 /\ c2 = REPRODUCTION_COOLDOWN
                          /\ pc = "apply_gravity_and_forces"
                          /\ nextId' > nextId

\* C12: in every state every atom's reproduction cooldown is a whole number
\* from 0 to 60, and it changes only by the countdown of decide_behavior
\* (1 less, from a value > 0) or by a mating (set to 60 for the two mates,
\* the offspring starting at 0).
C12_CooldownRange ==
    /\ [](\A k \in 1..Len(atoms) : atoms[k].cooldown \in 0..REPRODUCTION_COOLDOWN)
    /\ [][C12_CooldownStep]_vars

\* C12 witness: a tick has ended with an atom that mated in it, its cooldown
\* counted down from 60, and the offspring, still at 0.
C12_Witness ==
    /\ pc = "apply_gravity_and_forces"
    /\ tick = 1
    /\ \E k, m \in 1..Len(atoms) :
          /\ atoms[k].cooldown \in 1..(REPRODUCTION_COOLDOWN - 1)
          /\ atoms[m].cooldown = 0
          /\ atoms[m].mass = RAdd(atoms[k].mass, atoms[k].mass)

\* C17: the reproduction cooldown goes down by exactly 1 per tick of the
\* main loop while it is > 0: in a run that starts with every cooldown at 0,
\* an atom whose cooldown is > 0 when n ticks have ended was set to 60 in one
\* of them, so its cooldown is at least 60 - n.
C17_CooldownOnePerTick ==
    pc = "apply_gravity_and_forces" =>
        \A k \in 1..Len(atoms) :
            atoms[k].cooldown > 0 => atoms[k].cooldown >= REPRODUCTION_COOLDOWN - tick

\* C18: at the end of every tick every atom of the population, the offspring
\* born in the tick included, has both position components in [0, WINDOW_SIZE].
C18_PositionsInWorld ==
    pc = "apply_gravity_and_forces" =>
        \A k \in 1..Len(atoms) :
            /\ RLe(Zero, atoms[k].x) /\ RLe(atoms[k].x, R(WINDOW_SIZE))
            /\ RLe(Zero, atoms[k].y) /\ RLe(atoms[k].y, R(WINDOW_SIZE))

\* C18 witness: a tick has ended with an offspring born in it in the
\* population and an atom on the wall x = 0, bounced back (its x velocity is
\* positive) by the check_bounds of an update_position that had moved it
\* below 0.
C18_Witness ==
    /\ pc = "apply_gravity_and_forces"
    /\ tick = 1
    /\ \E m \in 1..Len(atoms) : atoms[m].mass = R(2)
    /\ \E k \in 1..Len(atoms) : atoms[k].x = Zero /\ RLt(Zero, atoms[k].vx)

\* C20: eat does not remove the atom that called it: after atoms[i].eat(atoms)
\* the caller is still in the population.
C20_EatKeepsCaller ==
    pc = "eat" => Where(atoms, prev[caller[1]].id) # {}

\* the atoms a and b are at the same position
Coincident(a, b) == a.x = b.x /\ a.y = b.y

\* C13: no step divides by a zero distance, and on two atoms at the same
\* position the pair force, resolve_collision and chase change nothing, as
\* does the steering of decide_behavior for an atom that has another atom at
\* its own position.
C13_ZeroDistanceIsSkipped ==
    /\ pc # "ZeroDivisionError"
    /\ ( /\ pc \in {"force_pair", "resolve_collision", "chase"}
         /\ Coincident(prev[caller[1]], prev[caller[2]]) ) => atoms = prev
    /\ ( /\ pc = "steer"
         /\ \E k \in 1..Len(prev) :
               k # caller[1] /\ Coincident(prev[caller[1]], prev[k]) ) => atoms = prev

\* C13 witness: chase has been called by a moving offspring (mass 2) on an
\* atom at the offspring's own position.
C13_Witness ==
    /\ pc = "chase"
    /\ Coincident(prev[caller[1]], prev[caller[2]])
    /\ prev[caller[1]].mass = R(2)
    /\ prev[caller[1]].vx # Zero
    /\ atoms = prev

\* C14: the drag step does not make a velocity component larger in
\* magnitude and does not change its sign.
C14_DragPullsTowardZero ==
    pc = "drag" =>
        LET a == prev[caller[1]]
            b == atoms[caller[1]]
        IN  /\ RLe(RSq(b.vx), RSq(a.vx)) /\ RLe(Zero, RMul(a.vx, b.vx))
            /\ RLe(RSq(b.vy), RSq(a.vy)) /\ RLe(Zero, RMul(a.vy, b.vy))

\* C16: the pair force between two atoms with nonzero charges of the same
\* sign, at a distance > 0 and <= FORCE_THRESHOLD, pushes each atom away from
\* the other: the velocity it adds to each points away from the other atom.
C16_LikeChargesRepel ==
    pc = "force_pair" =>
        LET a == prev[caller[1]]
            b == prev[caller[2]]
            a2 == atoms[caller[1]]
            b2 == atoms[caller[2]]
            dx == RSub(b.x, a.x)
            dy == RSub(b.y, a.y)
        IN  ( /\ RLt(Zero, RMul(a.charge, b.charge))
              /\ RLt(Zero, DistSq(a, b))
              /\ RLe(DistSq(a, b), RSq(FORCE_THRESHOLD)) )
            => /\ RLt(RAdd(RMul(RSub(a2.vx, a.vx), dx), RMul(RSub(a2.vy, a.vy), dy)), Zero)
               /\ RLt(Zero, RAdd(RMul(RSub(b2.vx, b.vx), dx), RMul(RSub(b2.vy, b.vy), dy)))

\* C15: resolve_collision changes no velocity when the two atoms are moving
\* apart or not moving along the line between their centres, i.e. when the
\* distance between the centres is not decreasing: (p2 - p1) . (v2 - v1) >= 0.
C15_SeparatingIsLeftAlone ==
    pc = "resolve_collision" =>
        LET a == prev[caller[1]]
            b == prev[caller[2]]
            closing == RAdd(RMul(RSub(b.x, a.x), RSub(b.vx, a.vx)),
                            RMul(RSub(b.y, a.y), RSub(b.vy, a.vy)))
        IN  RLe(Zero, closing) => atoms = prev

\* the number of atoms of the population the loop started on whose cooldown
\* was 0
ReadyAtStart == Cardinality({k \in 1..Len(prev) : prev[k].cooldown = 0})

\* the number of offspring the loop appended: the population started with
\* the identities 1..Len(prev), and every offspring took the next one
Appended == nextId - (Len(prev) + 1)

\* C19, as claimed: when the interaction loop has ended, the number of
\* offspring it appended is less than the number of atoms that had cooldown
\* 0 when it started.
C19_FewerOffspringThanReady ==
    pc = "interact_done" => Appended < ReadyAtStart

\* C19, amended: the interaction loop ends, having run its body at most once
\* per atom it started on or appended; it appends no offspring when no atom
\* had cooldown 0 at its start, and otherwise fewer offspring than the number
\* of atoms that had cooldown 0 at its start.
C19_LoopEndsWithBoundedOffspring ==
    pc = "interact_done" =>
        /\ Len(visits) <= Len(prev) + Appended
        /\ \A k \in 1..Len(visits) : Times(visits[k]) = 1
        /\ IF ReadyAtStart = 0 THEN Appended = 0 ELSE Appended < ReadyAtStart

\* C19 witness: the loop has ended after two matings, the second one with
\* the offspring of the first, on a population of three atoms with cooldown 0.
C19_Witness ==
    /\ pc = "interact_done"
    /\ ReadyAtStart = 3
    /\ Appended = 2
    /\ \E k \in 1..Len(atoms) : atoms[k].mass = R(3)

\* the number of food-tagged atoms of lst
FoodCount(lst) == Cardinality({k \in 1..Len(lst) : lst[k].species = "food"})

\* C21: reproduction creates no food-tagged offspring and does not raise the
\* number of food-tagged atoms: after a reproduce call no atom born in it is
\* tagged food, and the population holds no more food atoms than before.
C21_FoodDoesNotReproduce ==
    pc = "reproduce" =>
        /\ \A k \in Born(prev, atoms) : atoms[k].species # "food"
        /\ FoodCount(atoms) <= FoodCount(prev)

\* C24: resolve_collision on two atoms at different positions that are
\* approaching each other, (p2 - p1) . (v2 - v1) < 0, leaves them not
\* approaching: (p2 - p1) . (v2' - v1') >= 0.
C24_ApproachIsReversed ==
    pc = "resolve_collision" =>
        LET a == prev[caller[1]]
            b == prev[caller[2]]
            a2 == atoms[caller[1]]
            b2 == atoms[caller[2]]
            before == RAdd(RMul(RSub(b.x, a.x), RSub(b.vx, a.vx)),
                           RMul(RSub(b.y, a.y), RSub(b.vy, a.vy)))
            after == RAdd(RMul(RSub(b.x, a.x), RSub(b2.vx, a2.vx)),
                          RMul(RSub(b.y, a.y), RSub(b2.vy, a2.vy)))
        IN  (~Coincident(a, b) /\ RLt(before, Zero)) => RLe(Zero, after)

\* C22: an atom that has been removed from the population changes nothing
\* after that: when an atom's own eat has removed it, the reproduce call that
\* follows for it leaves the population as the removal left it, i.e. every
\* other atom is in it with every field as before, and nothing has been added.
C22_RemovedAtomDoesNothing ==
    pc = "eat_reproduce" =>
        ( Where(atoms, prev[caller[1]].id) = {} =>
            /\ Len(atoms) = Len(prev) - 1
            /\ \A k \in 1..Len(prev) :
                  k # caller[1] =>
                     \E m \in Where(atoms, prev[k].id) : atoms[m] = prev[k] )

\* C23: with MATING_SEASON false no offspring is created and no
\* reproduction cooldown is set: a step run with the flag off leaves the
\* population with the atoms it had, each with the cooldown it had.
C23_NoMatingOffSeason ==
    pc \in {"reproduce_off_season", "seek_off_season"} =>
        /\ Len(atoms) = Len(prev)
        /\ \A k \in 1..Len(atoms) :
              atoms[k].id = prev[k].id /\ atoms[k].cooldown = prev[k].cooldown

====
